---- MODULE Spec2Model ----
(***************************************************************************)
(* platform-switch: compile-time namespace facades (src/src/lib.rs).       *)
(*                                                                         *)
(* The crate has no run-time state.  What it does happens while it is      *)
(* built: the compiler reads the configuration (the cargo features, the    *)
(* `test` cfg and the toolchain channel), evaluates the two crate          *)
(* attributes, strips or keeps each `#[cfg]` item and expands each         *)
(* `cfg_if!`, and leaves three modules -- thiserror, log, fmt -- whose     *)
(* items are re-exports of an external crate.  The model is the state      *)
(* machine of that build: a configuration is chosen, the crate is          *)
(* compiled, downstream code names a path of the crate, and the            *)
(* configuration is changed for the next build.                            *)
(***************************************************************************)
EXTENDS FiniteSets, Naturals, Sequences, TLC

(* The features named by `feature = "..."` in lib.rs, and std_error, which *)
(* the crate documentation names (lib.rs:23, 56) and no cfg reads.         *)
Features == {"std", "log", "defmt", "thiserror", "core_error", "std_error"}

(* The aliases each facade module declares. *)
LogSyms == {"trace", "debug", "info", "warn", "error"}
FmtSyms == {"Debug", "Display", "Formatter", "Result"}

(* `pub use thiserror::*` / `pub use thiserror_core::*`: the public item   *)
(* of either crate that the documentation uses is the derive `Error`.      *)
ThiserrorItems == {"Error"}

VARIABLES
    features,     \* the enabled cargo features
    test,         \* cfg(test)
    nightly,      \* the toolchain accepts #![feature(..)]
    pc,           \* "configured" | "compiled"
    crate_attrs,  \* the crate attributes in force after cfg_attr
    thiserror,    \* module thiserror after expansion
    log,          \* module log after expansion
    fmt,          \* module fmt after expansion
    errors,       \* diagnostics of the build of this crate
    ref,          \* the last downstream path lookup
    prev          \* the previous build: its features and its three modules

vars == <<features, test, nightly, pc, crate_attrs, thiserror, log, fmt,
          errors, ref, prev>>

----------------------------------------------------------------------------
(* Items and modules *)

(* `pub use path::item as alias;` *)
UseAs(path, item, alias) == [alias |-> alias, path |-> path, item |-> item]

(* `pub use path::*;` *)
UseGlob(path, items) == {UseAs(path, i, i) : i \in items}

(* cfg_if! { if #[cfg(p)] { a } else { b } }: exactly one branch is kept. *)
CfgIf(p, a, b) == IF p THEN a ELSE b

(* `#[cfg(p)] pub mod m { items }`: the module exists only when p holds. *)
CfgMod(p, items) == [present |-> p, items |-> IF p THEN items ELSE {}]

Absent == [present |-> FALSE, items |-> {}]

Aliases(m) == {i.alias : i \in m.items}
Backends(m) == {i.path : i \in m.items}

----------------------------------------------------------------------------
(* lib.rs:76-77, the crate attributes *)

(* The attribute without the `std`/`test` exclusion. *)
CrateAttrs_core_error_only(f, t) ==
    (IF ~("std" \in f) THEN {"no_std"} ELSE {})
    \cup
    (IF "core_error" \in f THEN {"feature(error_in_core)"} ELSE {})

(* The attribute keyed on the wrong feature. *)
CrateAttrs_thiserror(f, t) ==
    (IF ~("std" \in f) THEN {"no_std"} ELSE {})
    \cup
    (IF ~("std" \in f \/ t) /\ "thiserror" \in f
        THEN {"feature(error_in_core)"} ELSE {})

(* lib.rs:76-77 *)
CrateAttrs(f, t) ==
    (IF ~("std" \in f) THEN {"no_std"} ELSE {})
    \cup
    (IF ~("std" \in f \/ t) /\ "core_error" \in f
        THEN {"feature(error_in_core)"} ELSE {})

(* A #![feature] attribute is accepted by a nightly toolchain only         *)
(* ("Requires nightly", lib.rs:24 and 82-83); elsewhere it is error E0554. *)
Diagnostics(attrs, n) ==
    IF "feature(error_in_core)" \in attrs /\ ~n THEN {"E0554"} ELSE {}

----------------------------------------------------------------------------
(* The two branches of the cfg_if! exchanged. *)
thiserror_mod_swapped(f) ==
    CfgMod("thiserror" \in f,
           CfgIf("core_error" \in f,
                 UseGlob("thiserror", ThiserrorItems),
                 UseGlob("thiserror_core", ThiserrorItems)))

(* core_error yields to std_error when both are set. *)
thiserror_mod_std_error_first(f) ==
    CfgMod("thiserror" \in f,
           CfgIf(~("core_error" \in f) \/ "std_error" \in f,
                 UseGlob("thiserror", ThiserrorItems),
                 UseGlob("thiserror_core", ThiserrorItems)))

(* The module gated on either error feature. *)
thiserror_mod_any(f) ==
    CfgMod("thiserror" \in f \/ "std_error" \in f,
           CfgIf(~("core_error" \in f),
                 UseGlob("thiserror", ThiserrorItems),
                 UseGlob("thiserror_core", ThiserrorItems)))

(* lib.rs:89-98 *)
thiserror_mod(f) ==
    CfgMod("thiserror" \in f,
           CfgIf(~("core_error" \in f),
                 UseGlob("thiserror", ThiserrorItems),
                 UseGlob("thiserror_core", ThiserrorItems)))

(* One re-export of the defmt branch left on log. *)
log_mod_mixed(f) ==
    CfgMod("log" \in f,
           CfgIf("defmt" \in f,
                 { UseAs("defmt", "debug", "debug"),
                   UseAs("defmt", "error", "error"),
                   UseAs("defmt", "info",  "info"),
                   UseAs("defmt", "trace", "trace"),
                   UseAs("log",   "warn",  "warn") },
                 { UseAs("log", "debug", "debug"),
                   UseAs("log", "error", "error"),
                   UseAs("log", "info",  "info"),
                   UseAs("log", "trace", "trace"),
                   UseAs("log", "warn",  "warn") }))

(* The defmt branch taken only in a no_std build. *)
log_mod_defmt_no_std(f) ==
    CfgMod("log" \in f,
           CfgIf("defmt" \in f /\ ~("std" \in f),
                 { UseAs("defmt", "debug", "debug"),
                   UseAs("defmt", "error", "error"),
                   UseAs("defmt", "info",  "info"),
                   UseAs("defmt", "trace", "trace"),
                   UseAs("defmt", "warn",  "warn") },
                 { UseAs("log", "debug", "debug"),
                   UseAs("log", "error", "error"),
                   UseAs("log", "info",  "info"),
                   UseAs("log", "trace", "trace"),
                   UseAs("log", "warn",  "warn") }))

(* The module gated on either logging feature. *)
log_mod_any(f) ==
    CfgMod("log" \in f \/ "defmt" \in f,
           CfgIf("defmt" \in f,
                 { UseAs("defmt", "debug", "debug"),
                   UseAs("defmt", "error", "error"),
                   UseAs("defmt", "info",  "info"),
                   UseAs("defmt", "trace", "trace"),
                   UseAs("defmt", "warn",  "warn") },
                 { UseAs("log", "debug", "debug"),
                   UseAs("log", "error", "error"),
                   UseAs("log", "info",  "info"),
                   UseAs("log", "trace", "trace"),
                   UseAs("log", "warn",  "warn") }))

(* lib.rs:104-121 *)
log_mod(f) ==
    CfgMod("log" \in f,
           CfgIf("defmt" \in f,
                 { UseAs("defmt", "debug", "debug"),
                   UseAs("defmt", "error", "error"),
                   UseAs("defmt", "info",  "info"),
                   UseAs("defmt", "trace", "trace"),
                   UseAs("defmt", "warn",  "warn") },
                 { UseAs("log", "debug", "debug"),
                   UseAs("log", "error", "error"),
                   UseAs("log", "info",  "info"),
                   UseAs("log", "trace", "trace"),
                   UseAs("log", "warn",  "warn") }))

(* The hosted branch also taken when the hosted error backend is asked. *)
fmt_mod_std_error(f) ==
    CfgMod(TRUE,
           CfgIf("std" \in f \/ "std_error" \in f,
                 { UseAs("std::fmt", "Debug",     "Debug"),
                   UseAs("std::fmt", "Display",   "Display"),
                   UseAs("std::fmt", "Formatter", "Formatter"),
                   UseAs("std::fmt", "Result",    "Result") },
                 { UseAs("core::fmt", "Debug",     "Debug"),
                   UseAs("core::fmt", "Display",   "Display"),
                   UseAs("core::fmt", "Formatter", "Formatter"),
                   UseAs("core::fmt", "Result",    "Result") }))

(* lib.rs:124-138 *)
fmt_mod(f) ==
    CfgMod(TRUE,
           CfgIf("std" \in f,
                 { UseAs("std::fmt", "Debug",     "Debug"),
                   UseAs("std::fmt", "Display",   "Display"),
                   UseAs("std::fmt", "Formatter", "Formatter"),
                   UseAs("std::fmt", "Result",    "Result") },
                 { UseAs("core::fmt", "Debug",     "Debug"),
                   UseAs("core::fmt", "Display",   "Display"),
                   UseAs("core::fmt", "Formatter", "Formatter"),
                   UseAs("core::fmt", "Result",    "Result") }))

----------------------------------------------------------------------------
(* Downstream code: `platform_switch::m::s` (lib.rs:28-29, 40-47, 62-66) *)

ModuleNames == {"thiserror", "log", "fmt"}
SymsOf(m) == CASE m = "thiserror" -> ThiserrorItems
               [] m = "log"       -> LogSyms
               [] m = "fmt"       -> FmtSyms

NoRef == [module |-> "", symbol |-> "", target |-> ""]
Unresolved == "unresolved"

(* The path resolves to the backing path of the item of that alias, or is  *)
(* an unresolved reference when the module or the alias does not exist.    *)
Resolve(mod, s) ==
    IF mod.present /\ s \in Aliases(mod)
    THEN (CHOOSE i \in mod.items : i.alias = s).path
    ELSE Unresolved

NoPrev == [present |-> FALSE, features |-> {}, thiserror |-> Absent,
           log |-> Absent, fmt |-> Absent]

----------------------------------------------------------------------------
Init ==
    /\ features \in SUBSET Features
    /\ test \in BOOLEAN
    /\ nightly \in BOOLEAN
    /\ pc = "configured"
    /\ crate_attrs = {}
    /\ thiserror = Absent
    /\ log = Absent
    /\ fmt = Absent
    /\ errors = {}
    /\ ref = NoRef
    /\ prev = NoPrev

(* One build of the crate: the crate attributes, then the three modules. *)
Compile ==
    /\ pc = "configured"
    /\ pc' = "compiled"
    /\ crate_attrs' = CrateAttrs(features, test)
    /\ errors' = Diagnostics(CrateAttrs(features, test), nightly)
    /\ thiserror' = thiserror_mod(features)
    /\ log' = log_mod(features)
    /\ fmt' = fmt_mod(features)
    /\ UNCHANGED <<features, test, nightly, ref, prev>>

(* Downstream code names a path of the crate; it is compiled only once the *)
(* crate itself has built.                                                 *)
Reference(m, s) ==
    /\ pc = "compiled"
    /\ errors = {}
    /\ ref' = [module |-> m, symbol |-> s,
               target |-> Resolve(CASE m = "thiserror" -> thiserror
                                    [] m = "log"       -> log
                                    [] m = "fmt"       -> fmt, s)]
    /\ UNCHANGED <<features, test, nightly, pc, crate_attrs, thiserror, log,
                   fmt, errors, prev>>

(* The feature list of the manifest is edited and the crate is built again *)
(* from scratch, by the same toolchain and in the same profile.            *)
Reconfigure(f) ==
    /\ pc = "compiled"
    /\ prev' = [present |-> TRUE, features |-> features,
                thiserror |-> thiserror, log |-> log, fmt |-> fmt]
    /\ features' = f
    /\ UNCHANGED <<test, nightly>>
    /\ pc' = "configured"
    /\ crate_attrs' = {}
    /\ thiserror' = Absent
    /\ log' = Absent
    /\ fmt' = Absent
    /\ errors' = {}
    /\ ref' = NoRef

Next ==
    \/ Compile
    \/ \E m \in ModuleNames : \E s \in SymsOf(m) : Reference(m, s)
    \/ \E f \in SUBSET Features : Reconfigure(f)

Spec == Init /\ [][Next]_vars

TypeOK ==
    /\ features \subseteq Features
    /\ test \in BOOLEAN /\ nightly \in BOOLEAN
    /\ pc \in {"configured", "compiled"}
    /\ errors \subseteq {"E0554"}

----------------------------------------------------------------------------
(* Properties *)

Compiled == pc = "compiled"

(* Every alias of the group is declared, each re-exports the item of its   *)
(* own name, and all of them come from the one backing path b.             *)
BoundTo(mod, syms, b) ==
    /\ mod.present
    /\ Aliases(mod) = syms
    /\ \A i \in mod.items : i.path = b /\ i.item = i.alias

(* C1: in every configuration, each facade group that is exposed has all   *)
(* of its symbols and a single backing implementation: the five logging    *)
(* entry points are all defmt or all log, the four formatting aliases all  *)
(* std::fmt or all core::fmt.                                              *)
C1_AllOrNothing ==
    Compiled =>
        /\ log.present =>
              \/ BoundTo(log, LogSyms, "defmt")
              \/ BoundTo(log, LogSyms, "log")
        /\ fmt.present =>
              \/ BoundTo(fmt, FmtSyms, "std::fmt")
              \/ BoundTo(fmt, FmtSyms, "core::fmt")
        /\ thiserror.present =>
              \/ BoundTo(thiserror, ThiserrorItems, "thiserror")
              \/ BoundTo(thiserror, ThiserrorItems, "thiserror_core")

C1_Witness ==
    /\ Compiled
    /\ BoundTo(log, LogSyms, "defmt")
    /\ BoundTo(fmt, FmtSyms, "core::fmt")
    /\ BoundTo(thiserror, ThiserrorItems, "thiserror_core")

(* C2 as written: whenever defmt is requested the five entry points bind   *)
(* to defmt, and otherwise the five bind to log.                           *)
C2_Original ==
    Compiled =>
        IF "defmt" \in features
        THEN BoundTo(log, LogSyms, "defmt")
        ELSE BoundTo(log, LogSyms, "log")

(* C2 amended: when the log feature is enabled, the five entry points bind *)
(* to defmt if defmt is requested and to log otherwise; when the log       *)
(* feature is not enabled the module does not exist, whatever defmt is.    *)
C2_Selection ==
    Compiled =>
        IF "log" \in features
        THEN IF "defmt" \in features
             THEN BoundTo(log, LogSyms, "defmt")
             ELSE BoundTo(log, LogSyms, "log")
        ELSE log = Absent

C2_Witness ==
    /\ Compiled
    /\ "defmt" \in features /\ "log" \in features /\ "std" \in features
    /\ BoundTo(log, LogSyms, "defmt")

(* C3: the fmt module exists in every configuration and std alone picks    *)
(* the backend of all four aliases: std::fmt with std, core::fmt without.  *)
C3_FmtSelection ==
    Compiled =>
        IF "std" \in features
        THEN BoundTo(fmt, FmtSyms, "std::fmt")
        ELSE BoundTo(fmt, FmtSyms, "core::fmt")

C3_Witness ==
    /\ Compiled
    /\ ~("std" \in features) /\ "std_error" \in features
    /\ BoundTo(fmt, FmtSyms, "core::fmt")

OptsIn == "feature(error_in_core)" \in crate_attrs

(* C4 as written: whenever core_error is requested the group binds to      *)
(* thiserror_core; otherwise it binds to thiserror if that is enabled and  *)
(* exposes nothing if not.                                                 *)
C4_Original ==
    Compiled =>
        IF "core_error" \in features
        THEN BoundTo(thiserror, ThiserrorItems, "thiserror_core")
        ELSE IF "thiserror" \in features
             THEN BoundTo(thiserror, ThiserrorItems, "thiserror")
             ELSE thiserror = Absent

(* C4 amended: when the thiserror feature is enabled the group binds to    *)
(* thiserror_core if core_error is requested and to thiserror otherwise;   *)
(* when the thiserror feature is not enabled the group exposes nothing,    *)
(* also when core_error is requested.  Where the crate opts in to          *)
(* error_in_core, the build fails on a toolchain that does not allow it.   *)
C4_Selection ==
    Compiled =>
        /\ IF "thiserror" \in features
           THEN IF "core_error" \in features
                THEN BoundTo(thiserror, ThiserrorItems, "thiserror_core")
                ELSE BoundTo(thiserror, ThiserrorItems, "thiserror")
           ELSE thiserror = Absent
        /\ (OptsIn /\ ~nightly) => errors # {}

C4_Witness ==
    /\ Compiled
    /\ "core_error" \in features /\ "thiserror" \in features
    /\ BoundTo(thiserror, ThiserrorItems, "thiserror_core")
    /\ OptsIn /\ nightly /\ errors = {}

(* C5 as written: with std_error and core_error both set the build fails   *)
(* with a diagnostic.                                                      *)
C5_Original ==
    (Compiled /\ "std_error" \in features /\ "core_error" \in features)
        => errors # {}

(* C5 amended: with std_error and core_error both set the resolver raises  *)
(* no diagnostic for the contradiction and std_error is ignored: the group *)
(* binds to thiserror_core when the thiserror feature is enabled and       *)
(* exposes nothing otherwise, and the build fails only where the crate     *)
(* opts in to error_in_core (no std, no test) on a toolchain that does not *)
(* allow it.                                                               *)
C5_SilentPick ==
    (Compiled /\ "std_error" \in features /\ "core_error" \in features) =>
        /\ IF "thiserror" \in features
           THEN BoundTo(thiserror, ThiserrorItems, "thiserror_core")
           ELSE thiserror = Absent
        /\ errors # {} <=> (~("std" \in features) /\ ~test /\ ~nightly)

C5_Witness ==
    /\ Compiled
    /\ {"std_error", "core_error", "thiserror"} \subseteq features
    /\ BoundTo(thiserror, ThiserrorItems, "thiserror_core")
    /\ errors = {}

(* C6 as written: core_error on a toolchain without the capability fails   *)
(* the build, whatever the other flags are.                                *)
C6_Original ==
    (Compiled /\ "core_error" \in features /\ ~nightly) => errors # {}

(* C6 amended: with core_error requested, std not set, a build that is not *)
(* a test build and a toolchain without the capability, the build fails,   *)
(* and it fails when the crate is compiled: no downstream path is looked   *)
(* up.  With std set, or in a test build, the crate does not ask for the   *)
(* capability and that failure does not occur.                             *)
C6_FailsWithoutSetting ==
    (Compiled /\ "core_error" \in features /\ ~nightly) =>
        /\ errors # {} <=> (~("std" \in features) /\ ~test)
        /\ errors # {} => ref = NoRef

C6_Witness ==
    /\ Compiled
    /\ "core_error" \in features /\ ~("thiserror" \in features)
    /\ ~("std" \in features) /\ ~test /\ ~nightly
    /\ errors = {"E0554"}

(* C7: with the constrained logging backend and hosted formatting enabled  *)
(* and the error facility disabled, log binds to defmt, fmt binds to       *)
(* std::fmt, the error module does not exist, and a downstream reference   *)
(* to an error-facade symbol is unresolved.                                *)
C7_Scenario2 ==
    (/\ Compiled
     /\ {"log", "defmt", "std"} \subseteq features
     /\ ~("thiserror" \in features)) =>
        /\ BoundTo(log, LogSyms, "defmt")
        /\ BoundTo(fmt, FmtSyms, "std::fmt")
        /\ thiserror = Absent
        /\ errors = {}
        /\ ref.module = "thiserror" => ref.target = Unresolved

C7_Witness ==
    /\ Compiled
    /\ {"log", "defmt", "std", "std_error"} \subseteq features
    /\ ~("thiserror" \in features)
    /\ ref.module = "thiserror" /\ ref.symbol = "Error"
    /\ ref.target = Unresolved

(* C8: two builds that agree on a group's own flags give that group the    *)
(* same module: fmt depends on std only, log on log and defmt only, the    *)
(* error module on thiserror and core_error only.                          *)
SameOn(flags) == features \cap flags = prev.features \cap flags

C8_Independent ==
    (Compiled /\ prev.present) =>
        /\ SameOn({"std"}) => fmt = prev.fmt
        /\ SameOn({"log", "defmt"}) => log = prev.log
        /\ SameOn({"thiserror", "core_error"}) => thiserror = prev.thiserror

C8_Witness ==
    /\ Compiled /\ prev.present
    /\ SameOn({"log", "defmt"}) /\ "defmt" \in features /\ "log" \in features
    /\ ~SameOn({"std"}) /\ ~SameOn({"thiserror", "core_error"})
    /\ log = prev.log /\ fmt # prev.fmt /\ thiserror # prev.thiserror

(* C9: the log module exists exactly when the log feature is enabled; with *)
(* it, defmt chooses between the defmt and the log macros; without it none *)
(* of the five entry points exists, also when defmt is set, and a          *)
(* downstream reference to one is unresolved.                              *)
C9_LogGate ==
    Compiled =>
        /\ log.present <=> "log" \in features
        /\ "log" \in features =>
              Backends(log) = IF "defmt" \in features THEN {"defmt"}
                                                      ELSE {"log"}
        /\ ~("log" \in features) =>
              /\ Aliases(log) \cap LogSyms = {}
              /\ ref.module = "log" => ref.target = Unresolved

C9_Witness ==
    /\ Compiled
    /\ ~("log" \in features) /\ "defmt" \in features
    /\ ref.module = "log" /\ ref.symbol = "warn" /\ ref.target = Unresolved

(* C10 as written: whenever the error facade binds to thiserror_core the   *)
(* crate opts in to error_in_core.                                         *)
C10_Original ==
    (Compiled /\ BoundTo(thiserror, ThiserrorItems, "thiserror_core"))
        => OptsIn

(* C10 amended: whenever the error facade binds to thiserror_core, std is  *)
(* not set and the build is not a test build, the crate opts in to         *)
(* error_in_core; with std set or in a test build it binds to              *)
(* thiserror_core without opting in.  The crate opts in exactly when       *)
(* core_error is set, std is not and the build is no test build, and it is *)
(* no_std exactly when std is not set.                                     *)
C10_OptIn ==
    Compiled =>
        /\ OptsIn <=> /\ "core_error" \in features
                      /\ ~("std" \in features)
                      /\ ~test
        /\ "no_std" \in crate_attrs <=> ~("std" \in features)
        /\ BoundTo(thiserror, ThiserrorItems, "thiserror_core") =>
              (OptsIn <=> (~("std" \in features) /\ ~test))

C10_Witness ==
    /\ Compiled
    /\ BoundTo(thiserror, ThiserrorItems, "thiserror_core")
    /\ ~("std" \in features) /\ ~test
    /\ OptsIn /\ "no_std" \in crate_attrs

====
